---- MODULE Spec2Model ----
(***************************************************************************)
(* SME cyber self-assessment: the question-set builder (loader.py) and the *)
(* results view of the wizard (app.py).                                    *)
(*                                                                         *)
(* Four specifications share the variables below:                          *)
(*   Spec         build_question_set applied to a bank directory, a size,  *)
(*                a sector and an overlay-flag mapping;                    *)
(*   ValidateSpec validate_question applied to one decoded record;         *)
(*   ResultsSpec  the Results page computed from a question list and an    *)
(*                answer mapping;                                          *)
(*   SessionSpec  one browser session of the wizard: script runs and the   *)
(*                Restart callback over st.session_state.                  *)
(***************************************************************************)
EXTENDS Integers, Sequences, FiniteSets, TLC

VARIABLES
    fs,             \* file name -> content of the questions/ directory
    size,           \* build_question_set argument
    sector,         \* build_question_set argument
    overlay_flags,  \* build_question_set argument: sequence of <<key, enabled>> (dict order)
    result,         \* outcome of the build call
    rawq,           \* validate_question argument
    vresult,        \* outcome of validate_question
    questions,      \* st.session_state.questions (Results page)
    answers,        \* st.session_state.answers   (Results page)
    view,           \* what the Results page shows
    session         \* the other fields of st.session_state (SessionSpec)

loaderVars == <<fs, size, sector, overlay_flags, result>>
validateVars == <<rawq, vresult>>
resultsVars == <<questions, answers, view>>
vars == <<loaderVars, validateVars, resultsVars, session>>

----------------------------------------------------------------------------
(* Decoded JSON values, tagged with the Python type json.load gives them.   *)

JStr(s) == [jtype |-> "str", s |-> s]
JInt(n) == [jtype |-> "int", n |-> n]
JFloat(n) == [jtype |-> "float", n |-> n]
JBool(b) == [jtype |-> "bool", b |-> b]
JNull == [jtype |-> "NoneType"]
\* a JSON array (of strings inside a record, of records at a file's root)
JList(items) == [jtype |-> "list", items |-> items]
\* a JSON object: d is a function from its keys to JSON values
JDict(d) == [jtype |-> "dict", d |-> d]

Range(s) == {s[i] : i \in DOMAIN s}

\* Outcome of a call that may raise: exc = "none" when it returns.
Ok == [exc |-> "none", at |-> ""]
Raise(exc, at) == [exc |-> exc, at |-> at]
\* Sequential composition of checks: the first exception propagates.
Then(first, rest) == IF first.exc # "none" THEN first ELSE rest

\* Python `k in obj`.  A str operand is a substring test; every string value of
\* the model either equals k or shares no substring with it.
PyIn(k, obj) ==
    CASE obj.jtype = "dict" -> k \in DOMAIN obj.d
      [] obj.jtype = "list" -> k \in Range(obj.items)
      [] obj.jtype = "str" -> k = obj.s
      [] OTHER -> FALSE

\* Whether `k in obj` / iter(obj) raises TypeError (int, float, bool, None).
NotIterable(obj) == obj.jtype \notin {"dict", "list", "str"}

\* Python set(obj) for the iterable values of the model.
PySet(obj) ==
    CASE obj.jtype = "dict" -> DOMAIN obj.d
      [] obj.jtype = "list" -> Range(obj.items)
      [] obj.jtype = "str" -> IF obj.s = "" THEN {} ELSE {"<chars of>" \o obj.s}
      [] OTHER -> {}

\* Python obj[k] with a str key: only a dict holding k returns.
Subscript(obj, k, ctx) ==
    IF obj.jtype # "dict" THEN Raise("TypeError", ctx)
    ELSE IF k \notin DOMAIN obj.d THEN Raise("KeyError", ctx)
    ELSE Ok

----------------------------------------------------------------------------
(* loader.py: the closed enumerations and the schema validator.            *)

ALLOWED_SIZES == {"micro", "small", "medium"}
ALLOWED_SECTORS ==
    {"all", "hospitality_retail", "professional_services", "manufacturing_logistics",
     "creative_digital_marketing", "health_wellness_education", "technology_startup_saas"}
ALLOWED_OVERLAYS ==
    {"payment_card_industry_data_security_standard",
     "general_data_protection_regulation",
     "operational_technology_and_industrial_control"}
ANSWER_TYPES == {"traffic_light"}

RequiredKeys ==
    <<"id", "section", "text", "hint", "answer_type", "weights",
      "visibility_rules", "framework_references">>
WeightKeys == <<"importance", "effort", "impact">>
VisibilityKeys == <<"sizes", "sectors", "overlays">>

\* isinstance(value, expected): bool is a subclass of int.
IsInstance(value, expected) ==
    \/ value.jtype \in expected
    \/ value.jtype = "bool" /\ "int" \in expected

RECURSIVE RequireKeysFrom(_, _, _, _)
RequireKeysFrom(obj, keys, i, ctx) ==
    IF i > Len(keys) THEN Ok
    ELSE IF NotIterable(obj) THEN Raise("TypeError", ctx)
    ELSE IF ~PyIn(keys[i], obj) THEN Raise("ValueError", ctx \o ": missing " \o keys[i])
    ELSE RequireKeysFrom(obj, keys, i + 1, ctx)

_require_keys(obj, keys, ctx) == RequireKeysFrom(obj, keys, 1, ctx)

_require_type(value, expected, ctx) ==
    IF IsInstance(value, expected) THEN Ok ELSE Raise("ValueError", ctx)

\* _require_type(q[k], ...): the subscript is evaluated first.
RequireTypeAt(q, k, expected) ==
    Then(Subscript(q, k, "question." \o k),
         _require_type(q.d[k], expected, "question." \o k))

RECURSIVE ValidateWeightsFrom(_, _, _)
ValidateWeightsFrom(w, i, ctx) ==
    IF i > Len(WeightKeys) THEN Ok
    ELSE IF WeightKeys[i] \notin DOMAIN w.d
            \/ ~IsInstance(w.d[WeightKeys[i]], {"int", "float"})
         THEN Raise("ValueError", ctx \o ": weights." \o WeightKeys[i])
    ELSE ValidateWeightsFrom(w, i + 1, ctx)

_validate_weights(w, ctx) == ValidateWeightsFrom(w, 1, ctx)

\* set(v[field]).issubset(allowed)
SubsetCheck(v, field, allowed, ctx) ==
    IF NotIterable(v.d[field]) THEN Raise("TypeError", ctx \o ".visibility_rules." \o field)
    ELSE IF ~(PySet(v.d[field]) \subseteq allowed)
         THEN Raise("ValueError", ctx \o ".visibility_rules." \o field)
    ELSE Ok

\* A plausible slip: the overlays rule is left unchecked.
ValidateVisibilityNoOverlays(v, ctx) ==
    Then(_require_keys(v, VisibilityKeys, ctx \o ".visibility_rules"),
    Then(SubsetCheck(v, "sizes", ALLOWED_SIZES, ctx),
         SubsetCheck(v, "sectors", ALLOWED_SECTORS, ctx)))

_validate_visibility(v, ctx) ==
    Then(_require_keys(v, VisibilityKeys, ctx \o ".visibility_rules"),
    Then(SubsetCheck(v, "sizes", ALLOWED_SIZES, ctx),
    Then(SubsetCheck(v, "sectors", ALLOWED_SECTORS, ctx),
         SubsetCheck(v, "overlays", ALLOWED_OVERLAYS, ctx))))

AnswerTypeCheck(q) ==
    Then(Subscript(q, "answer_type", "question.answer_type"),
         IF q.d["answer_type"].jtype \in {"list", "dict"}
         THEN Raise("TypeError", "question.answer_type")
         ELSE IF q.d["answer_type"].jtype = "str" /\ q.d["answer_type"].s \in ANSWER_TYPES
         THEN Ok
         ELSE Raise("ValueError", "question.answer_type"))

validate_question(q) ==
    Then(_require_keys(q, RequiredKeys, "question"),
    Then(RequireTypeAt(q, "id", {"str"}),
    Then(RequireTypeAt(q, "section", {"str"}),
    Then(RequireTypeAt(q, "text", {"str"}),
    Then(RequireTypeAt(q, "hint", {"str"}),
    Then(AnswerTypeCheck(q),
    Then(RequireTypeAt(q, "weights", {"dict"}),
    Then(RequireTypeAt(q, "visibility_rules", {"dict"}),
    Then(RequireTypeAt(q, "framework_references", {"list"}),
    Then(_validate_weights(q.d["weights"], "question"),
         _validate_visibility(q.d["visibility_rules"], "question")))))))))))

----------------------------------------------------------------------------
(* loader.py: the bank loader and the merge-and-filter engine.             *)

\* The questions/ directory: a file is absent, or holds a decoded JSON root.
Absent == [exists |-> FALSE]
File(root) == [exists |-> TRUE, root |-> root]

CorePath == "core.json"
SizePath(s) == "size_" \o s \o ".json"
SectorPath(s) == "sector_" \o s \o ".json"
OverlayPath(o) == "overlays_" \o o \o ".json"

\* A plausible slip: only the first record of a file is validated.
ValidateFirstOnly(data, i) ==
    IF i > Len(data) THEN Ok ELSE validate_question(data[i])

\* First exception of validate_question over data[i..], else Ok.
RECURSIVE ValidateAllFrom(_, _)
ValidateAllFrom(data, i) ==
    IF i > Len(data) THEN Ok
    ELSE Then(validate_question(data[i]), ValidateAllFrom(data, i + 1))

\* A plausible slip: a missing file is read as an empty bank.
LoadMissingAsEmpty(dir, path) ==
    IF ~dir[path].exists THEN [exc |-> "none", at |-> "", data |-> <<>>]
    ELSE IF dir[path].root.jtype # "list" THEN Raise("ValueError", path)
    ELSE LET err == ValidateAllFrom(dir[path].root.items, 1)
         IN  IF err.exc # "none" THEN err
             ELSE [exc |-> "none", at |-> "", data |-> dir[path].root.items]

\* Outcome of load_questions_from_file: an exception, or the list in `data`.
load_questions_from_file(dir, path) ==
    IF ~dir[path].exists THEN Raise("FileNotFoundError", path)
    ELSE IF dir[path].root.jtype # "list" THEN Raise("ValueError", path)
    ELSE LET Checked(err) ==
                 IF err.exc # "none" THEN err
                 ELSE [exc |-> "none", at |-> "", data |-> dir[path].root.items]
         IN  Checked(ValidateAllFrom(dir[path].root.items, 1))

QId(q) == q.d["id"].s

\* A plausible slip: the `seen` test is dropped, every record is appended.
RECURSIVE MergeArrNoSeen(_, _, _)
MergeArrNoSeen(arr, j, st) ==
    IF j > Len(arr) THEN st
    ELSE MergeArrNoSeen(arr, j + 1,
                        [seen |-> st.seen \cup {QId(arr[j])},
                         merged |-> Append(st.merged, arr[j])])

\* The inner loop of merge_unique_by_id over arr[j..]; st = [seen, merged].
RECURSIVE MergeArr(_, _, _)
MergeArr(arr, j, st) ==
    IF j > Len(arr) THEN st
    ELSE IF QId(arr[j]) \in st.seen THEN MergeArr(arr, j + 1, st)
    ELSE MergeArr(arr, j + 1,
                  [seen |-> st.seen \cup {QId(arr[j])},
                   merged |-> Append(st.merged, arr[j])])

RECURSIVE MergeLists(_, _, _)
MergeLists(lists, i, st) ==
    IF i > Len(lists) THEN st
    ELSE MergeLists(lists, i + 1, MergeArr(lists[i], 1, st))

\* A plausible slip: the banks are walked most specific first.
MergeSpecificFirst(lists) ==
    MergeLists([i \in DOMAIN lists |-> lists[Len(lists) + 1 - i]], 1,
               [seen |-> {}, merged |-> <<>>]).merged

merge_unique_by_id(lists) == MergeLists(lists, 1, [seen |-> {}, merged |-> <<>>]).merged

\* overlay_flags.get(o, False) on the ordered mapping <<key, enabled>>, ...
FlagsGet(flags, o) == \E i \in DOMAIN flags : flags[i][1] = o /\ flags[i][2]

\* A plausible slip: any() in place of all() over the overlay tags.
VisibleAnyOverlay(q, sz, sec, flags) ==
    LET v == q.d["visibility_rules"].d
    IN  /\ PyIn(sz, v["sizes"])
        /\ (PyIn(sec, v["sectors"]) \/ PyIn("all", v["sectors"]))
        /\ \E o \in PySet(v["overlays"]) : FlagsGet(flags, o)

\* The condition of the final loop of build_question_set.
Visible(q, sz, sec, flags) ==
    LET v == q.d["visibility_rules"].d
    IN  /\ PyIn(sz, v["sizes"])
        /\ (PyIn(sec, v["sectors"]) \/ PyIn("all", v["sectors"]))
        /\ \A o \in PySet(v["overlays"]) : FlagsGet(flags, o)

\* A plausible slip: each kept question is put in front of the ones kept so far.
RECURSIVE FilterFromPrepending(_, _, _, _, _)
FilterFromPrepending(merged, i, sz, sec, flags) ==
    IF i > Len(merged) THEN <<>>
    ELSE FilterFromPrepending(merged, i + 1, sz, sec, flags)
         \o (IF Visible(merged[i], sz, sec, flags) THEN <<merged[i]>> ELSE <<>>)

RECURSIVE FilterFrom(_, _, _, _, _)
FilterFrom(merged, i, sz, sec, flags) ==
    IF i > Len(merged) THEN <<>>
    ELSE (IF Visible(merged[i], sz, sec, flags) THEN <<merged[i]>> ELSE <<>>)
         \o FilterFrom(merged, i + 1, sz, sec, flags)

\* A plausible slip: an enabled overlay is loaded without the exists() test.
OverlayStepNoExistsTest(dir, flag, st) ==
    IF ~flag[2] THEN st
    ELSE LET ld == load_questions_from_file(dir, OverlayPath(flag[1]))
         IN  IF ld.exc # "none" THEN Raise(ld.exc, ld.at)
             ELSE [st EXCEPT !.overlay_q_all = @ \o ld.data,
                             !.debug = Append(@, [line |-> "Loaded overlay", key |-> flag[1]])]

\* One iteration of the overlay loop for flag = <<overlay_key, enabled>>;
\* st = [exc, at, overlay_q_all, debug].
OverlayStep(dir, flag, st) ==
    IF ~flag[2] THEN st
    ELSE IF dir[OverlayPath(flag[1])].exists
    THEN LET Extend(ld) ==
                 IF ld.exc # "none" THEN Raise(ld.exc, ld.at)
                 ELSE [st EXCEPT !.overlay_q_all = @ \o ld.data,
                                 !.debug = Append(@, [line |-> "Loaded overlay",
                                                      key |-> flag[1]])]
         IN  Extend(load_questions_from_file(dir, OverlayPath(flag[1])))
    ELSE [st EXCEPT !.debug = Append(@, [line |-> "Missing overlay", key |-> flag[1]])]

\* The overlay loop over flags[i..], in the mapping's iteration order.
RECURSIVE LoadOverlays(_, _, _, _)
LoadOverlays(dir, flags, i, st) ==
    IF i > Len(flags) \/ st.exc # "none" THEN st
    ELSE LoadOverlays(dir, flags, i + 1, OverlayStep(dir, flags[i], st))

\* A plausible slip: the sector bank is loaded like a mandatory one.
LoadSectorMandatory(dir, sec) == load_questions_from_file(dir, SectorPath(sec))

\* sector_q: the sector bank when its file exists, else the empty list.
LoadSector(dir, sec) ==
    IF dir[SectorPath(sec)].exists
    THEN load_questions_from_file(dir, SectorPath(sec))
    ELSE [exc |-> "none", at |-> "", data |-> <<>>]

Loaded(path, n) == [line |-> "Loaded", file |-> path, count |-> n]

\* build_question_set: a raised exception [exc, at], or the returned pair
\* [exc |-> "none", final, debug].
build_question_set(dir, sz, sec, flags) ==
    LET Return(ov, final) ==
            [exc |-> "none", at |-> "", final |-> final,
             debug |-> Append(ov.debug, [line |-> "Final question count",
                                         count |-> Len(final)])]
        AfterOverlays(core, size_q, sector_q, ov) ==
            IF ov.exc # "none" THEN Raise(ov.exc, ov.at)
            ELSE Return(ov, FilterFrom(merge_unique_by_id(<<core.data, size_q.data,
                                                            sector_q.data, ov.overlay_q_all>>),
                                       1, sz, sec, flags))
        AfterSector(core, size_q, sector_q) ==
            IF sector_q.exc # "none" THEN Raise(sector_q.exc, sector_q.at)
            ELSE AfterOverlays(core, size_q, sector_q,
                     LoadOverlays(dir, flags, 1,
                         [exc |-> "none", at |-> "", overlay_q_all |-> <<>>,
                          debug |-> <<Loaded(CorePath, Len(core.data)),
                                      Loaded(SizePath(sz), Len(size_q.data)),
                                      Loaded(SectorPath(sec), Len(sector_q.data))>>]))
        AfterSize(core, size_q) ==
            IF size_q.exc # "none" THEN Raise(size_q.exc, size_q.at)
            ELSE AfterSector(core, size_q, LoadSector(dir, sec))
        AfterCore(core) ==
            IF core.exc # "none" THEN Raise(core.exc, core.at)
            ELSE AfterSize(core, load_questions_from_file(dir, SizePath(sz)))
    IN  AfterCore(load_questions_from_file(dir, CorePath))

----------------------------------------------------------------------------
(* The inputs of build_question_set: bank directories and profiles.        *)

PCI == "payment_card_industry_data_security_standard"
GDPR == "general_data_protection_regulation"
OT == "operational_technology_and_industrial_control"

\* A well-formed question record as json.load decodes it.
Question(id, text, section, effort, impact, sizes, sectors, overlays) ==
    JDict([id |-> JStr(id), section |-> JStr(section), text |-> JStr(text),
           hint |-> JStr("why " \o id), answer_type |-> JStr("traffic_light"),
           weights |-> JDict([importance |-> JInt(2), effort |-> JInt(effort),
                              impact |-> JInt(impact)]),
           visibility_rules |-> JDict([sizes |-> JList(sizes), sectors |-> JList(sectors),
                                       overlays |-> JList(overlays)]),
           framework_references |-> JList(<<>>)])

AllSizes == <<"micro", "small", "medium">>

\* The bank directory the edits start from: seven questions, no medium tier,
\* no file for the generic sector, the industrial overlay not authored.
BaseDir ==
    [p \in {CorePath} \cup {SizePath(s) : s \in ALLOWED_SIZES}
           \cup {SectorPath(s) : s \in {"hospitality_retail", "other_generic"}}
           \cup {OverlayPath(o) : o \in ALLOWED_OVERLAYS} |->
        CASE p = CorePath ->
               File(JList(<<Question("q1", "core v1", "Access", 1, 3, AllSizes, <<"all">>, <<GDPR>>),
                            Question("q2", "core v1", "Backup", 3, 3, AllSizes, <<"all">>, <<>>)>>))
          [] p = SizePath("micro") ->
               File(JList(<<Question("q3", "micro v1", "Access", 2, 2, <<"micro">>, <<"all">>, <<>>)>>))
          [] p = SizePath("small") ->
               File(JList(<<Question("q4", "small v1", "Backup", 1, 1, <<"small">>, <<"all">>, <<>>)>>))
          [] p = SectorPath("hospitality_retail") ->
               File(JList(<<Question("q5", "sector v1", "Payments", 1, 3, AllSizes,
                                     <<"hospitality_retail">>, <<>>)>>))
          [] p = OverlayPath(PCI) ->
               File(JList(<<Question("q6", "pci v1", "Payments", 2, 3, AllSizes, <<"all">>, <<PCI>>)>>))
          [] p = OverlayPath(GDPR) ->
               File(JList(<<Question("q7", "gdpr v1", "Privacy", 1, 2, AllSizes, <<"all">>, <<GDPR, OT>>)>>))
          [] OTHER -> Absent]

\* Records an edit may append to a bank: a second version of q1 that is visible
\* to every profile, a new question restricted in all three rules, and a record
\* that violates the schema.
AppendRecords ==
    {Question("q1", "later v2", "Access", 1, 3, AllSizes, <<"all">>, <<>>),
     Question("q9", "new v1", "Payments", 1, 3, <<"micro">>, <<"hospitality_retail">>, <<PCI>>),
     [Question("q8", "bad v1", "Access", 1, 3, AllSizes, <<"all">>, <<>>)
        EXCEPT !.d["answer_type"] = JStr("free_text")]}

\* The files a build for size sz can read and an edit may touch.
EditFiles(sz) ==
    {CorePath, SizePath(sz), SectorPath("hospitality_retail"),
     OverlayPath(PCI), OverlayPath(GDPR)}

Edits(sz) ==
    [op : {"append"}, file : EditFiles(sz), rec : AppendRecords]
    \cup [op : {"delete", "corrupt"}, file : EditFiles(sz)]

\* One change to the directory: append a record to a bank, remove a bank
\* file, or replace a bank's root by a JSON object.
ApplyEdit(dir, e) ==
    CASE e.op = "delete" -> [dir EXCEPT ![e.file] = Absent]
      [] e.op = "corrupt" ->
            [dir EXCEPT ![e.file] = File(JDict([questions |-> JList(<<>>)]))]
      [] e.op = "append" ->
            IF dir[e.file].exists /\ dir[e.file].root.jtype = "list"
            THEN [dir EXCEPT ![e.file] = File(JList(Append(@.root.items, e.rec)))]
            ELSE dir

RECURSIVE ApplyEdits(_, _, _)
ApplyEdits(dir, edits, i) ==
    IF i > Len(edits) THEN dir ELSE ApplyEdits(ApplyEdit(dir, edits[i]), edits, i + 1)

\* Number of edits separating a directory from BaseDir.
MaxEdits == 2

SeqsUpTo(S, n) == UNION {[1..k -> S] : k \in 0..n}

\* Edits to different files commute: take them in one order of the files.
FileRank(sz, file) ==
    CASE file = CorePath -> 1
      [] file = SizePath(sz) -> 2
      [] file = SectorPath("hospitality_retail") -> 3
      [] file = OverlayPath(PCI) -> 4
      [] OTHER -> 5

InFileOrder(sz, edits) ==
    \A i \in 1..(Len(edits) - 1) : FileRank(sz, edits[i].file) <= FileRank(sz, edits[i + 1].file)

SizeInputs == {"micro", "small"}
SectorInputs == {"hospitality_retail", "other_generic"}

\* Overlay-flag mappings in dict order: the three keys build_questions_now
\* passes, two keys in the opposite order, and the empty mapping.
FlagInputs ==
    {<<<<PCI, b1>>, <<GDPR, b2>>, <<OT, b3>>>> : b1 \in BOOLEAN, b2 \in BOOLEAN, b3 \in BOOLEAN}
    \cup {<<<<GDPR, TRUE>>, <<PCI, TRUE>>>>, <<>>}

NotCalled == [exc |-> "not called", at |-> ""]

----------------------------------------------------------------------------
(* Spec: one call of build_question_set.                                   *)

ValidateIdle == /\ rawq = JNull /\ vresult = NotCalled
ResultsIdle ==
    /\ questions = <<>> /\ answers = <<>> /\ view = NotCalled /\ session = NotCalled

Init ==
    /\ size \in SizeInputs
    /\ sector \in SectorInputs
    /\ overlay_flags \in FlagInputs
    /\ \E edits \in SeqsUpTo(Edits(size), MaxEdits) :
          /\ InFileOrder(size, edits)
          /\ fs = ApplyEdits(BaseDir, edits, 1)
    /\ result = NotCalled
    /\ ValidateIdle
    /\ ResultsIdle

Build ==
    /\ result = NotCalled
    /\ result' = build_question_set(fs, size, sector, overlay_flags)
    /\ UNCHANGED <<fs, size, sector, overlay_flags, validateVars, resultsVars, session>>

Next == Build

Spec == Init /\ [][Next]_vars

----------------------------------------------------------------------------
(* Properties of build_question_set (specification Spec).                  *)

Called == result # NotCalled
Succeeded == result.exc = "none"
Returned == "final" \in DOMAIN result \/ "debug" \in DOMAIN result

\* A present file whose root is a list of records that all pass the schema.
WellFormed(path) ==
    /\ fs[path].exists
    /\ fs[path].root.jtype = "list"
    /\ \A i \in DOMAIN fs[path].root.items : validate_question(fs[path].root.items[i]) = Ok
Malformed(path) == fs[path].exists /\ ~WellFormed(path)

FlagKeys == {overlay_flags[i][1] : i \in DOMAIN overlay_flags}
Enabled(o) == \E i \in DOMAIN overlay_flags : overlay_flags[i] = <<o, TRUE>>
EnabledKeys == {o \in FlagKeys : Enabled(o)}

\* What a bank contributes when every file read is well-formed or absent.
Contribution(path) == IF fs[path].exists THEN fs[path].root.items ELSE <<>>

RECURSIVE OverlayContribution(_)
OverlayContribution(i) ==
    IF i > Len(overlay_flags) THEN <<>>
    ELSE (IF overlay_flags[i][2] THEN Contribution(OverlayPath(overlay_flags[i][1])) ELSE <<>>)
         \o OverlayContribution(i + 1)

\* core ++ size ++ sector ++ enabled overlays, in load order.
Concatenation ==
    Contribution(CorePath) \o Contribution(SizePath(size))
    \o Contribution(SectorPath(sector)) \o OverlayContribution(1)

IsFirstOccurrence(i) == \A j \in 1..(i - 1) : QId(Concatenation[j]) # QId(Concatenation[i])
FirstOccurrences == {Concatenation[i] : i \in {k \in DOMAIN Concatenation : IsFirstOccurrence(k)}}

SizesOf(q) == Range(q.d["visibility_rules"].d["sizes"].items)
SectorsOf(q) == Range(q.d["visibility_rules"].d["sectors"].items)
OverlaysOf(q) == Range(q.d["visibility_rules"].d["overlays"].items)

\* The three-part visibility predicate of the data model.
PassesRules(q) ==
    /\ size \in SizesOf(q)
    /\ (sector \in SectorsOf(q) \/ "all" \in SectorsOf(q))
    /\ \A o \in OverlaysOf(q) : Enabled(o)

Final == Range(result.final)

\* C1: when the build succeeds, a question of the de-duplicated sequence is in
\* the returned list iff the size is in its sizes, the sector is in its sectors
\* or they hold "all", and every overlay tag of its rules is mapped to true.
C1_VisibilityFilter ==
    Succeeded => \A q \in FirstOccurrences : (q \in Final <=> PassesRules(q))

\* A successful build for the generic sector that keeps an overlay question,
\* drops one only for a disabled overlay and drops one for its sector.
C1_Witness ==
    /\ Succeeded
    /\ sector = "other_generic"
    /\ \E q \in FirstOccurrences : q \in Final /\ OverlaysOf(q) # {}
    /\ \E q \in FirstOccurrences :
          /\ q \notin Final /\ size \in SizesOf(q) /\ "all" \in SectorsOf(q)
          /\ \E o \in OverlaysOf(q) : o \notin FlagKeys
    /\ \E q \in FirstOccurrences :
          /\ q \notin Final /\ size \in SizesOf(q) /\ "all" \notin SectorsOf(q)

\* C2: the returned list holds no two questions with the same id.
C2_UniqueIds ==
    Succeeded =>
        \A i, j \in DOMAIN result.final :
            i # j => QId(result.final[i]) # QId(result.final[j])

\* A successful build over banks that repeat an id inside one file and across
\* files, with that id in the result.
C2_Witness ==
    /\ Succeeded
    /\ \E i, j \in DOMAIN Contribution(CorePath) :
          i < j /\ QId(Concatenation[i]) = QId(Concatenation[j])
          /\ \E q \in Final : QId(q) = QId(Concatenation[i])
    /\ \E i \in DOMAIN Contribution(CorePath) :
          \E j \in (Len(Contribution(CorePath)) + 1)..Len(Concatenation) :
             QId(Concatenation[i]) = QId(Concatenation[j])

\* C3: for an id that occurs in the loaded banks, the result holds its first
\* occurrence in load order when that version passes the filter, and no
\* question with that id otherwise.
C3_FirstOccurrenceWins ==
    Succeeded =>
        \A i \in DOMAIN Concatenation :
            IsFirstOccurrence(i) =>
                IF PassesRules(Concatenation[i])
                THEN /\ Concatenation[i] \in Final
                     /\ \A r \in Final : QId(r) = QId(Concatenation[i]) => r = Concatenation[i]
                ELSE \A r \in Final : QId(r) # QId(Concatenation[i])

\* A successful build where the first version of an id fails the filter and a
\* later version of it would pass.
C3_Witness ==
    /\ Succeeded
    /\ \E i, j \in DOMAIN Concatenation :
          /\ i < j /\ IsFirstOccurrence(i)
          /\ QId(Concatenation[i]) = QId(Concatenation[j])
          /\ ~PassesRules(Concatenation[i]) /\ PassesRules(Concatenation[j])

OverlayLines(debug) ==
    SelectSeq(debug, LAMBDA l : l.line \in {"Loaded overlay", "Missing overlay"})

RECURSIVE ExpectedOverlayLines(_)
ExpectedOverlayLines(i) ==
    IF i > Len(overlay_flags) THEN <<>>
    ELSE (IF ~overlay_flags[i][2] THEN <<>>
          ELSE IF fs[OverlayPath(overlay_flags[i][1])].exists
          THEN <<[line |-> "Loaded overlay", key |-> overlay_flags[i][1]]>>
          ELSE <<[line |-> "Missing overlay", key |-> overlay_flags[i][1]]>>)
         \o ExpectedOverlayLines(i + 1)

OthersLoad ==
    /\ WellFormed(CorePath)
    /\ WellFormed(SizePath(size))
    /\ ~Malformed(SectorPath(sector))
    /\ \A o \in EnabledKeys : ~Malformed(OverlayPath(o))

\* The directory with an empty bank written for every enabled overlay that has
\* no file.
WithEmptyOverlayBanks ==
    [p \in DOMAIN fs |->
        IF ~fs[p].exists /\ \E o \in EnabledKeys : p = OverlayPath(o)
        THEN File(JList(<<>>)) ELSE fs[p]]

\* C5: enabled overlays whose file is absent do not fail the build: it ends as
\* it would with an empty bank in their place (the same exception, or the same
\* question list); the trace holds one "Missing overlay" line for each of them
\* at its place in the mapping's order, one "Loaded overlay" line for each
\* enabled overlay that has a file and no line for a disabled overlay; and when
\* the other files load, the build returns the filtered merge of the banks
\* that exist.
C5_MissingOverlayNotFatal ==
    Called =>
        LET other == build_question_set(WithEmptyOverlayBanks, size, sector, overlay_flags)
        IN  /\ result.exc = other.exc /\ result.at = other.at
            /\ Succeeded =>
                  /\ result.final = other.final
                  /\ OverlayLines(result.debug) = ExpectedOverlayLines(1)
            /\ OthersLoad =>
                  /\ Succeeded
                  /\ Final = {q \in FirstOccurrences : PassesRules(q)}

\* Two enabled overlays have no file, a third enabled overlay is loaded after a
\* missing one and contributes to the result, and the build returns.
C5_Witness ==
    /\ Succeeded
    /\ Cardinality({o \in EnabledKeys : ~fs[OverlayPath(o)].exists}) = 2
    /\ \E i, j \in DOMAIN overlay_flags :
          /\ i < j /\ overlay_flags[i][2] /\ overlay_flags[j][2]
          /\ ~fs[OverlayPath(overlay_flags[i][1])].exists
          /\ fs[OverlayPath(overlay_flags[j][1])].exists
          /\ \E q \in Final : q \in Range(Contribution(OverlayPath(overlay_flags[j][1])))

\* C6: with no file for the active sector, the build behaves exactly as with an
\* empty sector bank, and it succeeds when the other files load, returning the
\* filtered merge of core, size and the enabled overlays.
C6_SectorFallback ==
    (Called /\ ~fs[SectorPath(sector)].exists) =>
        /\ result = build_question_set(
                        [fs EXCEPT ![SectorPath(sector)] = File(JList(<<>>))],
                        size, sector, overlay_flags)
        /\ OthersLoad =>
              /\ Succeeded
              /\ result.final =
                    FilterFrom(merge_unique_by_id(
                                   <<Contribution(CorePath), Contribution(SizePath(size)),
                                     <<>>, OverlayContribution(1)>>),
                               1, size, sector, overlay_flags)

\* A successful, non-empty build for the generic sector with an enabled
\* overlay contributing.
C6_Witness ==
    /\ Succeeded
    /\ sector = "other_generic" /\ ~fs[SectorPath(sector)].exists
    /\ \E q \in Final : OverlaysOf(q) # {}
    /\ Len(result.final) >= 3

\* The bank files of a build as C8 lists them: core, active size, active sector
\* and the overlay file of every key of the flag mapping.
FilesOfMapping ==
    {CorePath, SizePath(size), SectorPath(sector)} \cup {OverlayPath(o) : o \in FlagKeys}
\* The bank files a build reads: overlays only when enabled.
FilesRead ==
    {CorePath, SizePath(size), SectorPath(sector)} \cup {OverlayPath(o) : o \in EnabledKeys}

\* C8 as stated: a malformed file among core, size, sector and the overlay
\* files of all keys of the mapping fails the build.
C8_AsStated ==
    (Called /\ \E p \in FilesOfMapping : Malformed(p)) => ~Succeeded /\ ~Returned

\* C8 amended: a present file among core, the active size, the active sector
\* and the overlays whose flag is true, whose root is not a list or one of whose
\* records fails the schema, fails the build as a whole: no list is returned.
C8_MalformedIsFatal ==
    (Called /\ \E p \in FilesRead : Malformed(p)) => ~Succeeded /\ ~Returned

\* An enabled overlay file holds a well-formed record followed by a malformed
\* one, every other file being well-formed, and the build raised.
C8_Witness ==
    /\ Called /\ ~Succeeded
    /\ WellFormed(CorePath) /\ WellFormed(SizePath(size)) /\ ~Malformed(SectorPath(sector))
    /\ \E o \in EnabledKeys :
          /\ Malformed(OverlayPath(o))
          /\ fs[OverlayPath(o)].root.jtype = "list"
          /\ Len(fs[OverlayPath(o)].root.items) >= 2
          /\ validate_question(fs[OverlayPath(o)].root.items[1]) = Ok

\* The place in the concatenation where the id of question q first occurs.
FirstIndex(q) == CHOOSE i \in DOMAIN Concatenation :
                    IsFirstOccurrence(i) /\ QId(Concatenation[i]) = QId(q)

\* C13: the returned list is a subsequence of core ++ size ++ sector ++
\* enabled overlays (overlays in the mapping's iteration order): every
\* returned question stands in the concatenation, and of two returned
\* questions the one whose id first occurs earlier there comes earlier in the
\* result.
C13_OrderPreserved ==
    Succeeded =>
        /\ \A a \in DOMAIN result.final :
              \E i \in DOMAIN Concatenation : Concatenation[i] = result.final[a]
        /\ \A a, b \in DOMAIN result.final :
              a < b => FirstIndex(result.final[a]) < FirstIndex(result.final[b])

\* A successful build under a mapping that lists the second overlay before
\* the first: a question of its bank is returned before one of the other
\* overlay bank, and a question standing between two returned ones in the
\* concatenation is filtered out.
C13_Witness ==
    /\ Succeeded
    /\ overlay_flags = <<<<GDPR, TRUE>>, <<PCI, TRUE>>>>
    /\ \E a, b \in DOMAIN result.final :
          /\ a < b
          /\ \E i \in DOMAIN Contribution(OverlayPath(GDPR)) :
                Contribution(OverlayPath(GDPR))[i] = result.final[a]
          /\ \E i \in DOMAIN Contribution(OverlayPath(PCI)) :
                Contribution(OverlayPath(PCI))[i] = result.final[b]
          /\ \E j \in DOMAIN Concatenation :
                /\ FirstIndex(result.final[a]) < j /\ j < FirstIndex(result.final[b])
                /\ IsFirstOccurrence(j)
                /\ \A r \in Final : QId(r) # QId(Concatenation[j])

----------------------------------------------------------------------------
(* ValidateSpec: validate_question applied to one decoded record.          *)

\* The record the mutations start from.
BaseRecord ==
    Question("q1", "text", "Access", 1, 3, <<"micro", "small">>, <<"all">>, <<GDPR>>)

\* Values a mutation may write in place of a top-level field, a weight or a
\* visibility rule.
TopValues == {JStr("x"), JInt(7), JNull, JList(<<>>)}
WeightValues == {JBool(TRUE), JFloat(2), JStr("3")}
RuleValues ==
    {JList(<<"unknown_tag">>), JList(<<>>), JStr(""), JInt(1), JDict([micro |-> JInt(1)])}
\* Array elements that are not objects.
NonRecords == {JStr("oops"), JInt(3), JList(RequiredKeys)}

Mutations ==
    [op : {"replace"}, value : NonRecords]
    \cup [op : {"set"}, path : {<<k>> : k \in Range(RequiredKeys) \cup {"notes"}},
          value : TopValues]
    \cup [op : {"drop"}, path : {<<k>> : k \in Range(RequiredKeys)}]
    \cup [op : {"set"}, path : {<<"weights", k>> : k \in Range(WeightKeys)},
          value : WeightValues]
    \cup [op : {"drop"}, path : {<<"weights", k>> : k \in Range(WeightKeys)}]
    \cup [op : {"set"}, path : {<<"visibility_rules", k>> : k \in Range(VisibilityKeys)},
          value : RuleValues]
    \cup [op : {"drop"}, path : {<<"visibility_rules", k>> : k \in Range(VisibilityKeys)}]

\* obj with the value at path[i..] written (set) or its key removed (drop);
\* obj unchanged when the path does not lead through objects.
RECURSIVE MutateAt(_, _, _, _)
MutateAt(obj, m, path, i) ==
    IF obj.jtype # "dict" THEN obj
    ELSE IF i = Len(path)
    THEN IF m.op = "drop"
         THEN JDict([k \in DOMAIN obj.d \ {path[i]} |-> obj.d[k]])
         ELSE JDict([k \in DOMAIN obj.d \cup {path[i]} |->
                        IF k = path[i] THEN m.value ELSE obj.d[k]])
    ELSE IF path[i] \notin DOMAIN obj.d THEN obj
    ELSE JDict([k \in DOMAIN obj.d |->
                   IF k = path[i] THEN MutateAt(obj.d[k], m, path, i + 1) ELSE obj.d[k]])

ApplyMutation(q, m) == IF m.op = "replace" THEN m.value ELSE MutateAt(q, m, m.path, 1)

RECURSIVE ApplyMutations(_, _, _)
ApplyMutations(q, ms, i) ==
    IF i > Len(ms) THEN q ELSE ApplyMutations(ApplyMutation(q, ms[i]), ms, i + 1)

\* The places a mutation may write, in a fixed order.
MutationPaths ==
    [i \in DOMAIN RequiredKeys |-> <<RequiredKeys[i]>>] \o << <<"notes">> >>
    \o [i \in DOMAIN WeightKeys |-> <<"weights", WeightKeys[i]>>]
    \o [i \in DOMAIN VisibilityKeys |-> <<"visibility_rules", VisibilityKeys[i]>>]
PathRank(path) == CHOOSE i \in DOMAIN MutationPaths : MutationPaths[i] = path

\* A replacement stands alone and the other mutations write distinct places
\* in the fixed order: a second write to a place overrides the first, and a
\* write below a place that was overwritten or before a replacement has no
\* effect, so these sequences produce every record the family holds.
InPathOrder(ms) ==
    /\ \A i \in DOMAIN ms : ms[i].op = "replace" => Len(ms) = 1
    /\ \A i, j \in DOMAIN ms : i < j => PathRank(ms[i].path) < PathRank(ms[j].path)

\* Number of mutations separating a record from BaseRecord.
MaxMutations == 2

LoaderIdle ==
    /\ fs = [path \in DOMAIN BaseDir |-> Absent] /\ size = "micro" /\ sector = "other_generic"
    /\ overlay_flags = <<>> /\ result = NotCalled

ValidateInit ==
    /\ \E ms \in SeqsUpTo(Mutations, MaxMutations) :
          /\ InPathOrder(ms)
          /\ rawq = ApplyMutations(BaseRecord, ms, 1)
    /\ vresult = NotCalled
    /\ LoaderIdle
    /\ ResultsIdle

Validate ==
    /\ vresult = NotCalled
    /\ vresult' = validate_question(rawq)
    /\ UNCHANGED <<rawq, loaderVars, resultsVars, session>>

ValidateNext == Validate

ValidateSpec == ValidateInit /\ [][ValidateNext]_vars

----------------------------------------------------------------------------
(* Properties of validate_question (specification ValidateSpec).           *)

Validated == vresult # NotCalled
Accepted == vresult = Ok

IsMapping(x) == x.jtype = "dict"
Has(x, k) == IsMapping(x) /\ k \in DOMAIN x.d
IsString(x) == x.jtype = "str"
\* A JSON number.
IsNumber(x) == x.jtype \in {"int", "float"}
\* An instance of int or float: a JSON number or a JSON boolean.
IsIntOrFloat(x) == x.jtype \in {"int", "float", "bool"}

\* The value iterates to a set of tags inside `allowed`: a list or the key set
\* of a mapping within it, or the empty string (every tag has two or more
\* characters, so no other string does).
TagsWithin(x, allowed) ==
    \/ x.jtype = "list" /\ Range(x.items) \subseteq allowed
    \/ x.jtype = "dict" /\ DOMAIN x.d \subseteq allowed
    \/ x.jtype = "str" /\ x.s = ""

Allowed(field) ==
    CASE field = "sizes" -> ALLOWED_SIZES
      [] field = "sectors" -> ALLOWED_SECTORS
      [] field = "overlays" -> ALLOWED_OVERLAYS

\* The schema with a set of keys `keys` demanded of the record's key set by
\* KeysOk and weights tested by NumOk.
SchemaWith(q, KeysOk(_), NumOk(_)) ==
    /\ IsMapping(q)
    /\ KeysOk(DOMAIN q.d)
    /\ \A k \in {"id", "section", "text", "hint"} : Has(q, k) /\ IsString(q.d[k])
    /\ Has(q, "answer_type") /\ q.d["answer_type"] = JStr("traffic_light")
    /\ Has(q, "weights")
    /\ \A k \in Range(WeightKeys) : Has(q.d["weights"], k) /\ NumOk(q.d["weights"].d[k])
    /\ Has(q, "visibility_rules")
    /\ \A f \in Range(VisibilityKeys) :
          Has(q.d["visibility_rules"], f)
          /\ TagsWithin(q.d["visibility_rules"].d[f], Allowed(f))

ExactlyRequired(keys) == keys = Range(RequiredKeys)
AtLeastRequired(keys) == Range(RequiredKeys) \subseteq keys

\* C7 as stated: a record is accepted only if it is a mapping with exactly the
\* required keys, string id/section/text/hint, answer_type traffic_light,
\* numeric weights and rules within the enumerations.
C7_AsStated ==
    (Validated /\ Accepted) => SchemaWith(rawq, ExactlyRequired, IsNumber)

\* The checks of validate_question in the order it makes them, each with the
\* place its exception names, for a mapping q.
Requirements(q) ==
    [i \in 1..8 |-> [at |-> "question: missing " \o RequiredKeys[i],
                     ok |-> Has(q, RequiredKeys[i])]]
    \o [i \in 1..4 |-> [at |-> "question." \o RequiredKeys[i],
                        ok |-> Has(q, RequiredKeys[i]) /\ IsString(q.d[RequiredKeys[i]])]]
    \o << [at |-> "question.answer_type",
           ok |-> Has(q, "answer_type") /\ q.d["answer_type"] = JStr("traffic_light")],
          [at |-> "question.weights",
           ok |-> Has(q, "weights") /\ IsMapping(q.d["weights"])],
          [at |-> "question.visibility_rules",
           ok |-> Has(q, "visibility_rules") /\ IsMapping(q.d["visibility_rules"])],
          [at |-> "question.framework_references",
           ok |-> Has(q, "framework_references")
                  /\ q.d["framework_references"].jtype = "list"] >>
    \o [i \in 1..3 |-> [at |-> "question: weights." \o WeightKeys[i],
                        ok |-> /\ Has(q, "weights")
                               /\ Has(q.d["weights"], WeightKeys[i])
                               /\ IsIntOrFloat(q.d["weights"].d[WeightKeys[i]])]]
    \o [i \in 1..3 |-> [at |-> "question.visibility_rules: missing " \o VisibilityKeys[i],
                        ok |-> /\ Has(q, "visibility_rules")
                               /\ Has(q.d["visibility_rules"], VisibilityKeys[i])]]
    \o [i \in 1..3 |-> [at |-> "question.visibility_rules." \o VisibilityKeys[i],
                        ok |-> /\ Has(q, "visibility_rules")
                               /\ Has(q.d["visibility_rules"], VisibilityKeys[i])
                               /\ TagsWithin(q.d["visibility_rules"].d[VisibilityKeys[i]],
                                             Allowed(VisibilityKeys[i]))]]

Violated(q) == LET reqs == Requirements(q) IN {i \in DOMAIN reqs : ~reqs[i].ok}
FirstViolation(q) == LET v == Violated(q) IN CHOOSE i \in v : \A j \in v : i <= j

\* C7 amended: a record is accepted only if it is a mapping with at least the
\* required keys, string id/section/text/hint, answer_type traffic_light,
\* weights whose importance, effort and impact are int or float instances
\* (JSON numbers or booleans) and rules within the enumerations; any other
\* record raises ValueError or TypeError, at the first check it violates, and
\* the outcome is an acceptance or an exception, never a changed record.
C7_SchemaValidation ==
    Validated =>
        LET conforms == SchemaWith(rawq, AtLeastRequired, IsIntOrFloat)
        IN  /\ Accepted => conforms
            /\ ~conforms => ~Accepted
            /\ ~Accepted =>
                  /\ vresult.exc \in {"ValueError", "TypeError"}
                  /\ IsMapping(rawq) =>
                        /\ Violated(rawq) # {}
                        /\ vresult.at = Requirements(rawq)[FirstViolation(rawq)].at

\* An accepted record that carries an extra key and a boolean weight.
C7_Witness ==
    /\ Validated /\ Accepted
    /\ "notes" \in DOMAIN rawq.d
    /\ \E k \in Range(WeightKeys) : rawq.d["weights"].d[k].jtype = "bool"

\* A rejected mapping with two violations, reported at the earlier one.
C7_WitnessRejected ==
    /\ Validated /\ ~Accepted /\ IsMapping(rawq)
    /\ Cardinality(Violated(rawq)) >= 2
    /\ vresult.exc = "ValueError"

----------------------------------------------------------------------------
(* Python floats (IEEE 754 binary64) on the Results page.  A float is a    *)
(* sign and a magnitude; the magnitude is an integer count of units of     *)
(* 2^-FracBits held in three limbs of LimbBits bits, most significant      *)
(* first.  Every value the page computes from the question sets below is   *)
(* below 8 and, when not zero, a multiple of 2^-FracBits, so sums and      *)
(* differences are exact in this form and each operation rounds its exact  *)
(* result to MantissaBits significant bits, ties to even, as the hardware  *)
(* does.                                                                   *)

MantissaBits == 53
LimbBits == 21
FracBits == 60
Limb == 2^LimbBits
ZeroMag == <<0, 0, 0>>

MagAdd(a, b) ==
    LET s3 == a[3] + b[3]
        s2 == a[2] + b[2] + (s3 \div Limb)
        s1 == a[1] + b[1] + (s2 \div Limb)
    IN  <<s1, s2 % Limb, s3 % Limb>>

\* a - b for a >= b.
MagSub(a, b) ==
    LET d3 == a[3] - b[3]
        b3 == IF d3 < 0 THEN 1 ELSE 0
        d2 == a[2] - b[2] - b3
        b2 == IF d2 < 0 THEN 1 ELSE 0
    IN  <<a[1] - b[1] - b2, d2 + b2 * Limb, d3 + b3 * Limb>>

MagLeq(a, b) ==
    \/ a[1] < b[1]
    \/ a[1] = b[1] /\ a[2] < b[2]
    \/ a[1] = b[1] /\ a[2] = b[2] /\ a[3] <= b[3]

RECURSIVE BitLenInt(_)
BitLenInt(n) == IF n = 0 THEN 0 ELSE 1 + BitLenInt(n \div 2)

BitLen(a) ==
    IF a[1] > 0 THEN 2 * LimbBits + BitLenInt(a[1])
    ELSE IF a[2] > 0 THEN LimbBits + BitLenInt(a[2])
    ELSE BitLenInt(a[3])

\* Round a magnitude to MantissaBits significant bits, to nearest, ties to
\* even; `sticky` says that the exact value lies strictly above `a`.
RoundMag(a, sticky) ==
    LET d == BitLen(a) - MantissaBits
    IN  IF d <= 0 THEN a
        ELSE LET unit == 2^d
                 r == a[3] % unit
                 half == unit \div 2
                 odd == (a[3] \div unit) % 2 = 1
                 down == <<a[1], a[2], a[3] - r>>
                 up == r > half \/ (r = half /\ (sticky \/ odd))
             IN  IF up THEN MagAdd(down, <<0, 0, unit>>) ELSE down

Float(neg, mag) == [neg |-> neg /\ mag # ZeroMag, mag |-> mag]
FZero == Float(FALSE, ZeroMag)
FNeg(x) == Float(~x.neg, x.mag)

\* x + y
FAdd(x, y) ==
    LET exact == IF x.neg = y.neg THEN Float(x.neg, MagAdd(x.mag, y.mag))
                 ELSE IF MagLeq(y.mag, x.mag) THEN Float(x.neg, MagSub(x.mag, y.mag))
                 ELSE Float(y.neg, MagSub(y.mag, x.mag))
    IN  Float(exact.neg, RoundMag(exact.mag, FALSE))

\* x - y
FSub(x, y) == FAdd(x, FNeg(y))

\* fabs(x) >= fabs(y)
FAbsGeq(x, y) == MagLeq(y.mag, x.mag)

\* x >= y
FGeq(x, y) ==
    IF x.neg = y.neg
    THEN IF x.neg THEN MagLeq(x.mag, y.mag) ELSE MagLeq(y.mag, x.mag)
    ELSE y.neg

\* a / n for an int a >= 0 and an int n > 0: the quotient correctly rounded.
IntTrueDiv(a, n) ==
    LET t1 == a * 2^(FracBits - 2 * LimbBits)
        t2 == (t1 % n) * Limb
        t3 == (t2 % n) * Limb
    IN  Float(FALSE, RoundMag(<<t1 \div n, t2 \div n, t3 \div n>>, t3 % n # 0))

\* x / n for a float x and an int n > 0.
FDivInt(x, n) ==
    LET t1 == x.mag[1]
        t2 == (t1 % n) * Limb + x.mag[2]
        t3 == (t2 % n) * Limb + x.mag[3]
    IN  Float(x.neg, RoundMag(<<t1 \div n, t2 \div n, t3 \div n>>, t3 % n # 0))

\* sum() of floats, item after item.
RECURSIVE NaiveSumFrom(_, _, _)
NaiveSumFrom(xs, i, f) ==
    IF i > Len(xs) THEN f ELSE NaiveSumFrom(xs, i + 1, FAdd(f, xs[i]))

\* sum() of floats from CPython 3.12 on: Neumaier's compensated summation.
RECURSIVE CompensatedSumFrom(_, _, _, _)
CompensatedSumFrom(xs, i, f, c) ==
    IF i > Len(xs)
    THEN IF c # FZero THEN FAdd(f, c) ELSE f
    ELSE LET x == xs[i]
             t == FAdd(f, x)
             e == IF FAbsGeq(f, x) THEN FAdd(FSub(f, t), x) ELSE FAdd(FSub(x, t), f)
         IN  CompensatedSumFrom(xs, i + 1, t, FAdd(c, e))

\* The interpreter's way of adding floats in sum() is not fixed by the
\* program: both ways are outcomes a run can produce.
SumModes == {"naive", "compensated"}

\* sum(xs) for a non-empty sequence of floats: 0 + xs[1] is xs[1].
FloatSum(xs, mode) ==
    IF mode = "naive" THEN NaiveSumFrom(xs, 2, xs[1])
    ELSE CompensatedSumFrom(xs, 2, xs[1], FZero)

----------------------------------------------------------------------------
(* The Results page of app.py over a stored question list and an answer    *)
(* mapping (specification ResultsSpec).                                    *)

DefaultChoice == "Partially or unsure"
Choices == {"Yes", "Partially or unsure", "No"}

score_choice(choice) ==
    CASE choice = "Yes" -> 2
      [] choice = "Partially or unsure" -> 1
      [] choice = "No" -> 0

\* The literals 1.6 and 0.8 are the doubles nearest to 8/5 and 4/5.
status_from_avg(avg) ==
    IF FGeq(avg, IntTrueDiv(8, 5)) THEN "Good"
    ELSE IF FGeq(avg, IntTrueDiv(4, 5)) THEN "Needs improvement"
    ELSE "At risk"

\* st.session_state.answers.get(q["id"], "Partially or unsure")
AnswerOf(ans, q) ==
    IF q.d["id"].s \in DOMAIN ans THEN ans[q.d["id"].s] ELSE DefaultChoice

SectionOf(q) == q.d["section"].s

\* The keys of section_scores, in the order setdefault inserts them.
RECURSIVE SectionsFrom(_, _, _)
SectionsFrom(qs, i, acc) ==
    IF i > Len(qs) THEN acc
    ELSE SectionsFrom(qs, i + 1,
                      IF SectionOf(qs[i]) \in Range(acc) THEN acc
                      ELSE Append(acc, SectionOf(qs[i])))

\* section_scores[s]: the scores of the questions of section s, in order.
RECURSIVE ScoresFrom(_, _, _, _)
ScoresFrom(qs, ans, s, i) ==
    IF i > Len(qs) THEN <<>>
    ELSE (IF SectionOf(qs[i]) = s THEN <<score_choice(AnswerOf(ans, qs[i]))>> ELSE <<>>)
         \o ScoresFrom(qs, ans, s, i + 1)

RECURSIVE IntSum(_, _)
IntSum(vals, i) == IF i > Len(vals) THEN 0 ELSE vals[i] + IntSum(vals, i + 1)

\* section_avg, as the sequence of its items.
SectionAvg(qs, ans) ==
    LET secs == SectionsFrom(qs, 1, <<>>)
    IN  [i \in DOMAIN secs |->
            LET vals == ScoresFrom(qs, ans, secs[i], 1)
            IN  [section |-> secs[i], avg |-> IntTrueDiv(IntSum(vals, 1), Len(vals))]]

\* len([a for a in st.session_state.answers.values() if a])
Answered(ans) == Cardinality({id \in DOMAIN ans : ans[id] # ""})

QuickWinsCap == 8

\* Slip: the effort test is forgotten.
IsQuickWinAnyEffort(q, a) ==
    /\ a # "Yes"
    /\ q.d["weights"].d["impact"].n >= 2

IsQuickWin(q, a) ==
    /\ a # "Yes"
    /\ q.d["weights"].d["effort"].n <= 2
    /\ q.d["weights"].d["impact"].n >= 2

RECURSIVE QuickWinsFrom(_, _, _)
QuickWinsFrom(qs, ans, i) ==
    IF i > Len(qs) THEN <<>>
    ELSE (IF IsQuickWin(qs[i], AnswerOf(ans, qs[i]))
          THEN <<[id |-> qs[i].d["id"].s, ans |-> AnswerOf(ans, qs[i])]>>
          ELSE <<>>)
         \o QuickWinsFrom(qs, ans, i + 1)

\* quick_wins[:8]
FirstN(xs, n) == SubSeq(xs, 1, IF Len(xs) < n THEN Len(xs) ELSE n)

\* What the page shows for a non-empty question list.
ResultsView(qs, ans, mode) ==
    LET section_avg == SectionAvg(qs, ans)
        avgs == [i \in DOMAIN section_avg |-> section_avg[i].avg]
        overall == FDivInt(FloatSum(avgs, mode), Len(avgs))
    IN  [exc |-> "none", at |-> "",
         section_avg |-> section_avg,
         section_status |-> [i \in DOMAIN avgs |-> status_from_avg(avgs[i])],
         overall |-> overall,
         status |-> status_from_avg(overall),
         answered |-> Answered(ans),
         total |-> Len(qs),
         quick_wins |-> FirstN(QuickWinsFrom(qs, ans, 1), QuickWinsCap)]

(* Question lists and answers: up to MaxHead questions drawn from           *)
(* Templates, each answered with one of the choices or not at all,          *)
(* followed by up to MaxTail questions of one further section, cheap and    *)
(* effective, of which the first ones are answered Yes and the others No.   *)

MaxHead == 2
MaxTail == 7

Templates ==
    << [section |-> "Access", effort |-> 2, impact |-> 2],
       [section |-> "Backup", effort |-> 3, impact |-> 3],
       [section |-> "Backup", effort |-> 1, impact |-> 1] >>

Unanswered == "unanswered"
HeadOptions == [t : DOMAIN Templates, a : Choices \cup {Unanswered}]
Numerals == <<"1", "2", "3", "4", "5", "6", "7", "8", "9", "10", "11", "12">>

HeadQuestion(h, i) ==
    Question("h" \o Numerals[i], "head " \o Numerals[i], Templates[h.t].section,
             Templates[h.t].effort, Templates[h.t].impact, AllSizes, <<"all">>, <<>>)

TailQuestion(i) ==
    Question("t" \o Numerals[i], "tail " \o Numerals[i], "Devices", 1, 3,
             AllSizes, <<"all">>, <<>>)

StoredQuestions(head, t) ==
    [i \in 1..Len(head) |-> HeadQuestion(head[i], i)] \o [i \in 1..t |-> TailQuestion(i)]

StoredAnswers(head, t, y) ==
    LET given == {<<"h" \o Numerals[i], head[i].a>> : i \in {j \in DOMAIN head : head[j].a # Unanswered}}
                 \cup {<<"t" \o Numerals[i], IF i <= y THEN "Yes" ELSE "No">> : i \in 1..t}
    IN  [id \in {p[1] : p \in given} |-> (CHOOSE p \in given : p[1] = id)[2]]

ResultsInit ==
    /\ \E head \in SeqsUpTo(HeadOptions, MaxHead) : \E t \in 0..MaxTail : \E y \in 0..t :
          /\ Len(head) + t > 0
          /\ questions = StoredQuestions(head, t)
          /\ answers = StoredAnswers(head, t, y)
    /\ view = NotCalled
    /\ session = NotCalled
    /\ LoaderIdle
    /\ ValidateIdle

\* One run of the script on the Results page with a stored question list.
RenderResults ==
    /\ view = NotCalled
    /\ questions # <<>>
    /\ \E mode \in SumModes : view' = ResultsView(questions, answers, mode)
    /\ UNCHANGED <<questions, answers, loaderVars, validateVars, session>>

ResultsNext == RenderResults

ResultsSpec == ResultsInit /\ [][ResultsNext]_vars

----------------------------------------------------------------------------
(* Properties of the Results page (specification ResultsSpec).             *)

Rendered == view # NotCalled

QuestionId(i) == questions[i].d["id"].s
CurrentAnswer(i) ==
    IF QuestionId(i) \in DOMAIN answers THEN answers[QuestionId(i)] ELSE DefaultChoice
Points(i) ==
    CASE CurrentAnswer(i) = "Yes" -> 2
      [] CurrentAnswer(i) = "Partially or unsure" -> 1
      [] CurrentAnswer(i) = "No" -> 0

SectionNames == {questions[i].d["section"].s : i \in DOMAIN questions}
Members(s) == {i \in DOMAIN questions : questions[i].d["section"].s = s}

RECURSIVE PointsOver(_)
PointsOver(S) ==
    IF S = {} THEN 0
    ELSE LET i == CHOOSE j \in S : TRUE IN Points(i) + PointsOver(S \ {i})

\* The sum of the section means as a fraction <<numerator, denominator>>.
RECURSIVE SumOfMeans(_)
SumOfMeans(S) ==
    IF S = {} THEN <<0, 1>>
    ELSE LET s == CHOOSE x \in S : TRUE
             r == SumOfMeans(S \ {s})
             n == Cardinality(Members(s))
         IN  <<r[1] * n + PointsOver(Members(s)) * r[2], r[2] * n>>

\* The mean of the section means compared with num/den, in exact arithmetic.
MeanOfMeansAtLeast(num, den) ==
    SumOfMeans(SectionNames)[1] * den
        >= num * SumOfMeans(SectionNames)[2] * Cardinality(SectionNames)
MeanOfMeansIs(num, den) ==
    SumOfMeans(SectionNames)[1] * den
        = num * SumOfMeans(SectionNames)[2] * Cardinality(SectionNames)

StatedStatus ==
    IF MeanOfMeansAtLeast(8, 5) THEN "Good"
    ELSE IF MeanOfMeansAtLeast(4, 5) THEN "Needs improvement"
    ELSE "At risk"

\* C9 as stated: with answers scored 2/1/0, section averages the means of
\* their questions' scores and the overall score the mean of the section
\* averages, the status shown is Good from 1.6, Needs improvement from 0.8
\* and At risk below.
C9_AsStated == Rendered => view.status = StatedStatus

\* C9, the part that holds: the status shown is the stated one whenever the
\* mean of the section means is not exactly 1.6 or 0.8.
C9_StatusOffThreshold ==
    (Rendered /\ ~MeanOfMeansIs(8, 5) /\ ~MeanOfMeansIs(4, 5))
        => view.status = StatedStatus

\* Sections of different sizes, where the mean of the section means (1.5,
\* Needs improvement) is not the mean of all scores (1.6).
C9_Witness ==
    /\ Rendered
    /\ Cardinality(SectionNames) = 2
    /\ MeanOfMeansIs(3, 2)
    /\ 5 * PointsOver(DOMAIN questions) = 8 * Len(questions)
    /\ view.status = "Needs improvement"

\* The mean of the section means is exactly 1.6 and the page shows
\* Needs improvement.
C9_Divergence ==
    /\ Rendered
    /\ MeanOfMeansIs(8, 5)
    /\ view.status = "Needs improvement"

Qualifies(i) ==
    /\ CurrentAnswer(i) # "Yes"
    /\ questions[i].d["weights"].d["effort"].n <= 2
    /\ questions[i].d["weights"].d["impact"].n >= 2

Surfaced(i) == \E j \in DOMAIN view.quick_wins : view.quick_wins[j].id = QuestionId(i)
QualifyingBefore(i) == Cardinality({j \in 1..(i - 1) : Qualifies(j)})

\* C10 as stated: a question is surfaced in the quick-wins list if and only
\* if its answer is not Yes, its effort is at most 2 and its impact at least 2.
C10_AsStated ==
    Rendered => \A i \in DOMAIN questions : Surfaced(i) <=> Qualifies(i)

\* C10 amended: a question is surfaced if and only if it qualifies (answer
\* not Yes, effort at most 2, impact at least 2) and fewer than eight
\* qualifying questions come before it in the question list; the entries
\* show the current answers, in the order of the question list.
C10_QuickWinsCapped ==
    Rendered =>
        /\ \A i \in DOMAIN questions :
              Surfaced(i) <=> (Qualifies(i) /\ QualifyingBefore(i) < QuickWinsCap)
        /\ \A j \in DOMAIN view.quick_wins :
              \E i \in DOMAIN questions :
                  /\ QuestionId(i) = view.quick_wins[j].id
                  /\ CurrentAnswer(i) = view.quick_wins[j].ans
                  /\ QualifyingBefore(i) = j - 1

\* Nine questions qualify; the ninth, answered No with effort 1 and impact 3,
\* is not surfaced.
C10_Witness ==
    /\ Rendered
    /\ \E i \in DOMAIN questions :
          /\ Qualifies(i) /\ QualifyingBefore(i) = QuickWinsCap
          /\ CurrentAnswer(i) = "No"
          /\ questions[i].d["weights"].d["effort"].n = 1
          /\ questions[i].d["weights"].d["impact"].n = 3
          /\ ~Surfaced(i)

----------------------------------------------------------------------------
(* app.py: one session of the wizard (specification SessionSpec).          *)
(*                                                                         *)
(* session holds the fields of st.session_state that the navigation and    *)
(* the build read or write; questions and answers are the variables of     *)
(* the same name.  The profile fields that only their own widget writes    *)
(* (person_name, employee_range, bp_*, dp_*, ...) and debug are left out.  *)
(* A widget returns what the user has just entered, else the session       *)
(* value it was drawn with; the state of a widget that a run does not      *)
(* draw is dropped by Streamlit.  view holds what the last execution did   *)
(* and showed, the exception of a build that failed included.              *)

defaults ==
    [page |-> "Landing",
     company_name |-> "",
     turnover_start |-> 0,
     size |-> "micro",
     sector_label |-> "Retail & Hospitality",
     sector_key |-> "hospitality_retail",
     card_payments |-> TRUE,
     personal_data |-> TRUE,
     industrial_systems |-> FALSE,
     q_index |-> 0]

SECTOR_LABELS ==
    << "Retail & Hospitality",
       "Professional / Consulting / Legal / Accounting",
       "Manufacturing / Logistics",
       "Creative / Marketing / IT Services",
       "Health / Wellness / Education",
       "Others (default generic set)" >>

SECTOR_LABEL_TO_KEY ==
    [label \in Range(SECTOR_LABELS) |->
        CASE label = "Retail & Hospitality" -> "hospitality_retail"
          [] label = "Professional / Consulting / Legal / Accounting" -> "professional_services"
          [] label = "Manufacturing / Logistics" -> "manufacturing_logistics"
          [] label = "Creative / Marketing / IT Services" -> "creative_digital_marketing"
          [] label = "Health / Wellness / Education" -> "health_wellness_education"
          [] label = "Others (default generic set)" -> "other_generic"]

\* SECTOR_LABEL_TO_KEY.get(label, "other_generic")
SectorKey(label) ==
    IF label \in DOMAIN SECTOR_LABEL_TO_KEY THEN SECTOR_LABEL_TO_KEY[label]
    ELSE "other_generic"

size_from_turnover_start(start) ==
    IF start < 2000000 THEN "micro"
    ELSE IF start < 10000000 THEN "small"
    ELSE "medium"

PyMin(a, b) == IF a < b THEN a ELSE b
PyMax(a, b) == IF a > b THEN a ELSE b

\* qs[idx] with Python's indexing: 0-based, negative indices count from the end.
Indexable(qs, idx) == -Len(qs) <= idx /\ idx < Len(qs)
PyItem(qs, idx) == qs[IF idx >= 0 THEN idx + 1 ELSE Len(qs) + idx + 1]

\* answers[id] = choice
DictSet(d, k, v) == [x \in DOMAIN d \cup {k} |-> IF x = k THEN v ELSE d[x]]

\* What an execution did and showed: the button or callback that started it
\* ("render" when none: an edited widget only returns its new value), the page
\* whose code ran, the exception that ended it, whether it called
\* build_questions_now, whether it ended in st.rerun() (or was a callback, which
\* a script run follows), whether the snapshot with the Restart button was
\* drawn, and the question, index and choice the Questionnaire page showed.
View(event, page, exc, at, built, rerun, snapshot) ==
    [event |-> IF event \in {"company_name", "turnover", "card_payments",
                             "industrial_systems", "answer"}
               THEN "render" ELSE event,
     page |-> page, exc |-> exc, at |-> at, built |-> built,
     rerun |-> rerun, snapshot |-> snapshot,
     shown |-> FALSE, idx |-> 0, total |-> 0, choice |-> "", results |-> NotCalled]

\* Slip: the stored list and index are reset before the build is attempted.
BuildResetsFirst(s, qs, dir) ==
    LET flags == << <<PCI, s.card_payments>>, <<GDPR, s.personal_data>>,
                    <<OT, s.industrial_systems>> >>
        call == [made |-> TRUE]
        ResetAndStore(r) ==
            IF r.exc # "none"
            THEN [exc |-> r.exc, at |-> r.at, s |-> [s EXCEPT !.q_index = 0], qs |-> <<>>,
                  call |-> call]
            ELSE [exc |-> "none", at |-> "", s |-> [s EXCEPT !.q_index = 0], qs |-> r.final,
                  call |-> call]
    IN  ResetAndStore(build_question_set(dir, s.size, s.sector_key, flags))

\* build_questions_now() on session fields s and stored list qs: the exception
\* of build_question_set leaves both as they are.
build_questions_now(s, qs, dir) ==
    LET flags == << <<PCI, s.card_payments>>, <<GDPR, s.personal_data>>,
                    <<OT, s.industrial_systems>> >>
        call == [made |-> TRUE]
        Store(r) ==
            IF r.exc # "none"
            THEN [exc |-> r.exc, at |-> r.at, s |-> s, qs |-> qs, call |-> call]
            ELSE [exc |-> "none", at |-> "", s |-> [s EXCEPT !.q_index = 0], qs |-> r.final,
                  call |-> call]
    IN  Store(build_question_set(dir, s.size, s.sector_key, flags))

\* `if not st.session_state.questions: build_questions_now()`
BuildIfEmpty(s, qs, dir) ==
    IF qs = <<>> THEN build_questions_now(s, qs, dir)
    ELSE [exc |-> "none", at |-> "", s |-> s, qs |-> qs, call |-> [made |-> FALSE]]

\* _restart(): st.session_state.clear(), then every field set to its default
\* and the page set back to what it was.
_restart(s) == [s |-> [defaults EXCEPT !.page = s.page], qs |-> <<>>, ans |-> <<>>]

\* The outcome of an execution: the session fields, the stored list, the
\* answers, the build call it made and what it showed.
Out(s, qs, ans, call, v) == [s |-> s, qs |-> qs, ans |-> ans, call |-> call, view |-> v]

\* The sidebar: a different page chosen in the radio.
Sidebar(s, qs, ans, ev) ==
    Out([s EXCEPT !.page = ev.to], qs, ans, [made |-> FALSE],
        View(ev.type, "sidebar", "none", "", FALSE, TRUE, FALSE))

\* The Landing page.
LandingPage(s, qs, ans, ev) ==
    LET s1 == [s EXCEPT !.company_name = IF ev.type = "company_name" THEN ev.value ELSE @,
                        !.turnover_start = IF ev.type = "turnover" THEN ev.value ELSE @]
        s2 == [s1 EXCEPT !.sector_key = SectorKey(s1.sector_label)]
    IN  IF ev.type = "start"
        THEN Out([s2 EXCEPT !.page = "Initial assessment"], qs, ans, [made |-> FALSE],
                 View(ev.type, "Landing", "none", "", FALSE, TRUE, FALSE))
        ELSE Out(s2, qs, ans, [made |-> FALSE],
                 View(ev.type, "Landing", "none", "", FALSE, FALSE, FALSE))

\* The Initial assessment page.
InitialPage(s, qs, ans, dir, ev) ==
    LET label == IF s.sector_label \in Range(SECTOR_LABELS) THEN s.sector_label
                 ELSE SECTOR_LABELS[1]
        turnover == IF ev.type = "turnover" THEN ev.value ELSE s.turnover_start
        s1 == [s EXCEPT !.company_name = IF ev.type = "company_name" THEN ev.value ELSE @,
                        !.turnover_start = turnover,
                        !.size = size_from_turnover_start(turnover),
                        !.sector_label = label,
                        !.sector_key = SectorKey(label),
                        !.card_payments = IF ev.type = "card_payments" THEN ev.value ELSE @,
                        !.industrial_systems =
                            IF ev.type = "industrial_systems" THEN ev.value ELSE @]
    IN  IF ev.type = "back"
        THEN Out([s1 EXCEPT !.page = "Landing"], qs, ans, [made |-> FALSE],
                 View(ev.type, "Initial assessment", "none", "", FALSE, TRUE, TRUE))
        ELSE IF ev.type = "continue"
        THEN LET Continue(b) ==
                     IF b.exc # "none"
                     THEN Out(b.s, b.qs, ans, b.call,
                              View(ev.type, "Initial assessment", b.exc, b.at, TRUE, FALSE,
                                   TRUE))
                     ELSE Out([b.s EXCEPT !.page = "Questionnaire"], b.qs, ans, b.call,
                              View(ev.type, "Initial assessment", "none", "", TRUE, TRUE, TRUE))
             IN  Continue(build_questions_now(s1, qs, dir))
        ELSE Out(s1, qs, ans, [made |-> FALSE],
                 View(ev.type, "Initial assessment", "none", "", FALSE, FALSE, TRUE))

\* Slip: the slider's number is converted to an index one too far down.
JumpTargetTooLow(jump) == jump - 2

\* `st.session_state.q_index = jump - 1`
JumpTarget(jump) == jump - 1

\* The Questionnaire page.
QuestionnairePage(s, qs, ans, dir, ev) ==
    LET Page(b) ==
        LET total == Len(b.qs)
            idx == PyMin(b.s.q_index, PyMax(0, total - 1))
            v0 == View(ev.type, "Questionnaire", "none", "", b.call.made, FALSE, TRUE)
        IN  IF b.exc # "none"
            THEN Out(b.s, b.qs, ans, b.call,
                     View(ev.type, "Questionnaire", b.exc, b.at, TRUE, FALSE, FALSE))
            ELSE IF total = 0
            THEN Out(b.s, b.qs, ans, b.call, [v0 EXCEPT !.idx = idx])
            ELSE IF ~Indexable(b.qs, idx)
            THEN Out(b.s, b.qs, ans, b.call,
                     View(ev.type, "Questionnaire", "IndexError", "qs[idx]", b.call.made,
                          FALSE, TRUE))
            ELSE
            LET q == PyItem(b.qs, idx)
                choice == IF ev.type = "answer" THEN ev.choice ELSE AnswerOf(ans, q)
                ans1 == DictSet(ans, q.d["id"].s, choice)
                v1 == [v0 EXCEPT !.shown = TRUE, !.idx = idx, !.total = total, !.choice = choice]
            IN  CASE ev.type = "previous" ->
                       Out([b.s EXCEPT !.q_index = PyMax(0, idx - 1)], b.qs, ans1, b.call,
                           [v1 EXCEPT !.rerun = TRUE])
                  [] ev.type = "next" ->
                       Out([b.s EXCEPT !.q_index = PyMin(total - 1, idx + 1)], b.qs, ans1, b.call,
                           [v1 EXCEPT !.rerun = TRUE])
                  [] ev.type = "finish" ->
                       Out([b.s EXCEPT !.page = "Results"], b.qs, ans1, b.call,
                           [v1 EXCEPT !.rerun = TRUE])
                  [] ev.type = "jump" ->
                       Out([b.s EXCEPT !.q_index = JumpTarget(ev.jump)], b.qs, ans1, b.call,
                           [v1 EXCEPT !.rerun = TRUE])
                  [] OTHER -> Out(b.s, b.qs, ans1, b.call, v1)
    IN  Page(BuildIfEmpty(s, qs, dir))

\* Slip: 'Start over' goes back to the first question and keeps the answers.
StartOverKeepsAnswers(s, ans) ==
    [s |-> [s EXCEPT !.q_index = 0, !.page = "Questionnaire"], ans |-> ans]

\* The 'Start over' button of the Results page.
StartOver(s, ans) ==
    [s |-> [s EXCEPT !.q_index = 0, !.page = "Questionnaire"], ans |-> <<>>]

\* The Results page.  Of what it draws the view keeps the 'Questions
\* answered' metric; the scores, statuses and quick wins it draws from the
\* same list and answers are those of ResultsView (specification ResultsSpec).
ResultsPage(s, qs, ans, dir, ev) ==
    LET Results(b) ==
        LET v0 == View(ev.type, "Results", "none", "", b.call.made, FALSE, FALSE)
        IN  IF b.exc # "none"
            THEN Out(b.s, b.qs, ans, b.call,
                     View(ev.type, "Results", b.exc, b.at, TRUE, FALSE, FALSE))
            ELSE IF b.qs = <<>>
            THEN Out(b.s, b.qs, ans, b.call, v0)
            ELSE CASE ev.type = "back" ->
                        Out([b.s EXCEPT !.page = "Questionnaire"], b.qs, ans, b.call,
                            [v0 EXCEPT !.rerun = TRUE])
                   [] ev.type = "start_over" ->
                        Out(StartOver(b.s, ans).s, b.qs, StartOver(b.s, ans).ans, b.call,
                            [v0 EXCEPT !.rerun = TRUE])
                   [] OTHER ->
                        Out(b.s, b.qs, ans, b.call,
                            [v0 EXCEPT !.total = Len(b.qs),
                                       !.results = [exc |-> "none", at |-> "",
                                                    answered |-> Answered(ans),
                                                    total |-> Len(b.qs)]])
    IN  Results(BuildIfEmpty(s, qs, dir))

\* One run of the script, started by event ev.
ScriptRun(s, qs, ans, dir, ev) ==
    IF ev.type = "nav" THEN Sidebar(s, qs, ans, ev)
    ELSE CASE s.page = "Landing" -> LandingPage(s, qs, ans, ev)
           [] s.page = "Initial assessment" -> InitialPage(s, qs, ans, dir, ev)
           [] s.page = "Questionnaire" -> QuestionnairePage(s, qs, ans, dir, ev)
           [] s.page = "Results" -> ResultsPage(s, qs, ans, dir, ev)

(* The bank directory of the session: two core questions, one for micro    *)
(* businesses only and one under the card-payments overlay; one question    *)
(* in the micro bank; no bank for small businesses; an empty bank for       *)
(* medium ones; an overlay bank for industrial systems holding a record     *)
(* that fails the schema.                                                   *)
SessionDir ==
    [p \in DOMAIN BaseDir |->
        CASE p = CorePath ->
               File(JList(<<Question("s1", "core one", "Access", 1, 3, <<"micro">>, <<"all">>, <<>>),
                            Question("s2", "core two", "Payments", 2, 3, AllSizes, <<"all">>,
                                     <<PCI>>)>>))
          [] p = SizePath("micro") ->
               File(JList(<<Question("s3", "micro one", "Backup", 3, 3, <<"micro">>, <<"all">>,
                                     <<>>)>>))
          [] p = SizePath("medium") -> File(JList(<<>>))
          [] p = OverlayPath(OT) ->
               File(JList(<<JDict([Question("s4", "ot one", "Plant", 1, 3, AllSizes, <<"all">>,
                                            <<OT>>).d
                                      EXCEPT !["answer_type"] = JStr("free_text")])>>))
          [] OTHER -> Absent]

Pages == {"Landing", "Initial assessment", "Questionnaire", "Results"}
\* What the user types as the company name, and the answer the user picks
\* in the radio.
CompanyNames == {"Acme"}
AnswerInputs == Choices
TurnoverInputs == {0, 2000000, 10000000}

SessionInit ==
    /\ session = defaults
    /\ questions = <<>>
    /\ answers = <<>>
    /\ view = NotCalled
    /\ fs = SessionDir
    /\ size = "micro" /\ sector = "other_generic" /\ overlay_flags = <<>>
    /\ result = NotCalled
    /\ ValidateIdle

\* The state an execution leaves behind.
Apply(out) ==
    /\ session' = out.s
    /\ questions' = out.qs
    /\ answers' = out.ans
    /\ view' = out.view
    /\ UNCHANGED <<loaderVars, validateVars>>

Run(ev) == Apply(ScriptRun(session, questions, answers, fs, ev))

\* A script run is due: the session has just started, the last run ended in
\* st.rerun(), or a callback has just run.
Pending == IF view = NotCalled THEN TRUE ELSE view.rerun
OnPage(p) == ~Pending /\ session.page = p

Render == Pending /\ Run([type |-> "render"])

Navigate == ~Pending /\ \E p \in Pages \ {session.page} : Run([type |-> "nav", to |-> p])

EnterCompanyName ==
    /\ ~Pending /\ session.page \in {"Landing", "Initial assessment"}
    /\ \E v \in CompanyNames \ {session.company_name} :
          Run([type |-> "company_name", value |-> v])

ChooseTurnover ==
    /\ ~Pending /\ session.page \in {"Landing", "Initial assessment"}
    /\ \E v \in TurnoverInputs \ {session.turnover_start} :
          Run([type |-> "turnover", value |-> v])

ToggleCardPayments ==
    /\ OnPage("Initial assessment")
    /\ Run([type |-> "card_payments", value |-> ~session.card_payments])

ToggleIndustrialSystems ==
    /\ OnPage("Initial assessment")
    /\ Run([type |-> "industrial_systems", value |-> ~session.industrial_systems])

StartInitialAssessment ==
    OnPage("Landing") /\ session.company_name # "" /\ Run([type |-> "start"])

BackToLanding == OnPage("Initial assessment") /\ Run([type |-> "back"])

ContinueToQuestionnaire ==
    OnPage("Initial assessment") /\ session.company_name # "" /\ Run([type |-> "continue"])

\* The Restart button of the snapshot: the callback runs, a script run follows.
Restart ==
    /\ ~Pending /\ view.snapshot
    /\ session' = _restart(session).s
    /\ questions' = _restart(session).qs
    /\ answers' = _restart(session).ans
    /\ view' = View("restart", "callback", "none", "", FALSE, TRUE, FALSE)
    /\ UNCHANGED <<loaderVars, validateVars>>

QuestionShown == OnPage("Questionnaire") /\ view.shown

Answer ==
    QuestionShown /\ \E c \in AnswerInputs \ {view.choice} : Run([type |-> "answer", choice |-> c])

Previous == QuestionShown /\ view.idx # 0 /\ Run([type |-> "previous"])

NextQuestion == QuestionShown /\ view.idx < view.total - 1 /\ Run([type |-> "next"])

Finish == QuestionShown /\ Run([type |-> "finish"])

Jump ==
    /\ QuestionShown
    /\ \E jump \in (1..PyMax(1, view.total)) \ {view.idx + 1} :
          Run([type |-> "jump", jump |-> jump])

ResultsShown == OnPage("Results") /\ view.results # NotCalled

BackToQuestionnaire == ResultsShown /\ Run([type |-> "back"])

StartOverClick == ResultsShown /\ Run([type |-> "start_over"])

SessionNext ==
    \/ Render
    \/ Navigate
    \/ EnterCompanyName
    \/ ChooseTurnover
    \/ ToggleCardPayments
    \/ ToggleIndustrialSystems
    \/ StartInitialAssessment
    \/ BackToLanding
    \/ ContinueToQuestionnaire
    \/ Restart
    \/ Answer
    \/ Previous
    \/ NextQuestion
    \/ Finish
    \/ Jump
    \/ BackToQuestionnaire
    \/ StartOverClick

SessionSpec == SessionInit /\ [][SessionNext]_vars

-----------------------------------------------------------------------------
(* Claims about the session.                                               *)

\* The overlay flags build_questions_now passes for session fields s.
FlagsOf(s) ==
    << <<PCI, s.card_payments>>, <<GDPR, s.personal_data>>, <<OT, s.industrial_systems>> >>

\* What build_question_set returns for the profile in session fields s.
BuiltFor(s) == build_question_set(fs, s.size, s.sector_key, FlagsOf(s))

\* The execution that view v describes called build_questions_now and the
\* call raised / returned.
BuildFailed(v) == v.built /\ v.exc \notin {"none", "IndexError"}
BuildSucceeded(v) == v.built /\ ~BuildFailed(v)

\* The id of the question the Questionnaire page is showing.
ShownId(v, qs) == PyItem(qs, v.idx).d["id"].s

\* Every answer recorded in ans is recorded unchanged in ans2, except the one
\* of the question that view v shows (the page records the radio's choice).
AnswersKept(ans, ans2, v, qs) ==
    \A k \in DOMAIN ans :
        /\ k \in DOMAIN ans2
        /\ ans2[k] # ans[k] => v.shown /\ k = ShownId(v, qs)

\* C11: an execution that calls build_questions_now stores a list that is a
\* function of the profile fields and the bank directory alone, and the call
\* changes no recorded answer; when the call raises, the session fields
\* (page, index and profile), the stored question list and the answers are
\* what they were before the execution.
C11_BuildFrame ==
    [][ /\ BuildSucceeded(view') =>
            /\ BuiltFor(session').exc = "none"
            /\ questions' = BuiltFor(session').final
            /\ AnswersKept(answers, answers', view', questions')
        /\ BuildFailed(view') =>
            /\ BuiltFor(session).exc = view'.exc
            /\ session' = session
            /\ questions' = questions
            /\ answers' = answers ]_vars

\* A build has just failed in a session that holds questions and answers.
C11_Witness ==
    /\ view # NotCalled
    /\ BuildFailed(view)
    /\ questions # <<>>
    /\ answers # <<>>

\* C12: the execution of 'Start over' leaves no answer recorded, sets the
\* index to 0 and keeps the question list and the profile fields; the page
\* drawn next shows the default choice, and the only answer recorded then is
\* that default.  The execution of 'Restart' sets every session field to its
\* default except the page, the stored list and the answers included.
C12_Resets ==
    [][ /\ view'.event = "start_over" =>
            /\ answers' = <<>>
            /\ session' = [session EXCEPT !.q_index = 0, !.page = "Questionnaire"]
            /\ questions' = questions
        /\ (view # NotCalled /\ view.event = "start_over") =>
            /\ view'.shown
            /\ view'.idx = 0
            /\ view'.choice = DefaultChoice
            /\ \A k \in DOMAIN answers' : answers'[k] = DefaultChoice
        /\ view'.event = "restart" =>
            /\ session' = [defaults EXCEPT !.page = session.page]
            /\ questions' = <<>>
            /\ answers' = <<>> ]_vars

\* 'Start over' has just run in a session whose list holds more than one
\* question: the index is 0 and no answer is recorded.
C12_Witness ==
    /\ view # NotCalled
    /\ view.event = "start_over"
    /\ view.rerun
    /\ Len(questions) > 1
    /\ session.q_index = 0
    /\ answers = <<>>

\* C14: whenever the Questionnaire page shows a question, the index it
\* shows it at satisfies 0 <= idx < number of questions of the stored list
\* (so qs[idx] never raises and never counts from the end), and when the
\* stored list is empty no question is shown.
C14_IndexInRange ==
    view # NotCalled =>
        /\ view.exc # "IndexError"
        /\ view.shown =>
              /\ 0 <= view.idx
              /\ view.idx < Len(questions)
              /\ view.total = Len(questions)
        /\ questions = <<>> => ~view.shown

\* A question is shown from a rebuilt list that is shorter than the number
\* of questions answered in the list before it.
C14_Witness ==
    /\ view # NotCalled
    /\ view.shown
    /\ Len(questions) = 1
    /\ Cardinality(DOMAIN answers) = 3

\* The Questionnaire page has run on an empty list and shown the warning.
C14_WitnessEmpty ==
    /\ view # NotCalled
    /\ view.page = "Questionnaire"
    /\ view.exc = "none"
    /\ ~view.rerun
    /\ questions = <<>>

\* The ids of the questions of list qs.
IdsOf(qs) == {qs[i].d["id"].s : i \in 1..Len(qs)}

\* Every recorded answer belongs to a question of the stored list.
AnswersWithinList == DOMAIN answers \subseteq IdsOf(questions)

\* The Results page is showing its metrics.
MetricsShown == view # NotCalled /\ view.results # NotCalled

\* C15, as stated: in every reachable state every key of answers is the id
\* of a question of the stored list, and the 'Questions answered' count of
\* the Results page does not exceed the number of questions.
C15_AsStated ==
    /\ AnswersWithinList
    /\ MetricsShown => view.results.answered <= view.results.total

\* C15, what the code keeps: an execution that does not call
\* build_questions_now keeps the answers within the stored list, and while
\* they are within it the count shown does not exceed the number of questions.
C15_KeptWithoutRebuild ==
    [][ /\ (AnswersWithinList /\ ~view'.built) => AnswersWithinList'
        /\ (AnswersWithinList' /\ MetricsShown') =>
              view'.results.answered <= view'.results.total ]_vars

\* The Results page shows more questions answered than the list holds.
C15_Divergence ==
    /\ MetricsShown
    /\ view.results.answered > view.results.total

====
